---- MODULE Spec2Model ----
(***************************************************************************)
(* Byte-oriented Huffman codec (huffman/huffman.py, huffman/utils.py).     *)
(*                                                                         *)
(* Bytes are integers 0..255, byte strings are sequences of bytes.  A      *)
(* Python dict is a sequence of <<key, value>> pairs with unique keys, in  *)
(* insertion order.  Node objects live in an arena `nodes`; a reference to *)
(* a Node is its index in the arena and None is 0.  A code is a sequence   *)
(* of the one-character strings "0" and "1".                               *)
(***************************************************************************)
EXTENDS Integers, Sequences, FiniteSets, TLC

VARIABLES
    pc,             \* position of the caller / of the running call
    data,           \* argument of compress_bytes
    compressed,     \* argument of decompress_bytes (a blob)
    freqs,          \* the frequency table of the running call
    freqs_made,     \* a frequency table has been created
    nodes,          \* arena of Node objects of the running call
    root,           \* root of the tree (0: None / not built)
    codes,          \* code table of compress_bytes
    bw,             \* the BitWriter
    br,             \* the BitReader
    idx,            \* number of items of the running loop already handled
    node,           \* decompress_bytes: current node of the tree walk
    out,            \* decompress_bytes: the output bytearray
    expected_size,  \* decompress_bytes: sum of the frequencies
    err,            \* the exception raised, "" when none
    bits,           \* bit I/O: the bits handed to write_bit
    read_bits,      \* bit I/O: what successive read_bit calls returned
    unpacked,       \* unpack_metadata: the table it returned
    bytes_read,     \* unpack_metadata: the byte count it returned
    scenario        \* what the caller does: "roundtrip" ("truncated" / "extended"
                    \* once it altered the blob), "decode", "bitio", "table"

vars == <<pc, data, compressed, freqs, freqs_made, nodes, root, codes, bw, br,
          idx, node, out, expected_size, err, bits, read_bits, unpacked,
          bytes_read, scenario>>

-----------------------------------------------------------------------------
(* Bounds of the model.                                                    *)

MaxLen == 4             \* longest enumerated input of compress_bytes
MaxPayload == 1         \* longest payload of an enumerated blob
MaxBits == 9            \* longest bit sequence handed to a BitWriter
MaxPreReads == 2        \* read_bit calls on a reader before unpack_metadata
MaxTrailing == 1        \* most bytes appended after the payload of a blob

Alphabet == {0, 65, 66, 67}         \* bytes of the enumerated inputs
TableSymbols == {0, 65, 66, 67}     \* symbols of the enumerated tables
TableCounts == {0, 1, 2, 16909060}  \* counts of the enumerated tables
BlobSymbols == {0, 65, 66}          \* symbols in the metadata of the enumerated blobs
BlobCounts == {0, 1, 258}           \* counts in the metadata of the enumerated blobs
PayloadBytes == {0, 90, 255}        \* payload bytes of the enumerated blobs
TamperAlphabet == {0, 65, 66}       \* bytes of the inputs whose blob is altered
TrailingBytes == {0, 255}           \* bytes appended after the payload of a blob

None == 0               \* the reference to no Node
NoSymbol == -1          \* Node.symbol of an internal node (None)
EOS == -1               \* read_bit's None

-----------------------------------------------------------------------------
(* Generic helpers.                                                        *)

Min(a, b) == IF a < b THEN a ELSE b

Range(s) == {s[i] : i \in DOMAIN s}

SeqsUpTo(S, n) == UNION {[1..k -> S] : k \in 0..n}

Prefix(s, k) == SubSeq(s, 1, Min(k, Len(s)))

\* x * 2^n and x \div 2^n by repeated doubling / halving (Python << and >>)
RECURSIVE Shl(_, _)
Shl(x, n) == IF n = 0 THEN x ELSE Shl(2 * x, n - 1)

RECURSIVE Shr(_, _)
Shr(x, n) == IF n = 0 THEN x ELSE Shr(x \div 2, n - 1)

\* number of bytes needed for n bits
CeilDiv8(n) == (n + 7) \div 8

-----------------------------------------------------------------------------
(* struct.pack / struct.unpack, big-endian unsigned.                       *)

RECURSIVE pack_be(_, _)
pack_be(x, width) ==
    IF width = 0 THEN <<>>
    ELSE Append(pack_be(x \div 256, width - 1), x % 256)

RECURSIVE unpack_be(_)
unpack_be(bs) ==
    IF bs = <<>> THEN 0
    ELSE 256 * unpack_be(SubSeq(bs, 1, Len(bs) - 1)) + bs[Len(bs)]

-----------------------------------------------------------------------------
(* BitWriter (utils.py).                                                   *)

NewBitWriter == [made |-> TRUE, buffer |-> <<>>, acc |-> 0, nbits |-> 0]

NoBitWriter == [made |-> FALSE, buffer |-> <<>>, acc |-> 0, nbits |-> 0]

write_bit_lsb(w, b) ==
    LET acc1 == w.acc + Shl(b % 2, w.nbits)
        n1 == w.nbits + 1
    IN  IF n1 = 8
        THEN [w EXCEPT !.buffer = Append(@, acc1), !.acc = 0, !.nbits = 0]
        ELSE [w EXCEPT !.acc = acc1, !.nbits = n1]

write_bit(w, b) ==
    LET acc1 == 2 * w.acc + (b % 2)
        n1 == w.nbits + 1
    IN  IF n1 = 8
        THEN [w EXCEPT !.buffer = Append(@, acc1), !.acc = 0, !.nbits = 0]
        ELSE [w EXCEPT !.acc = acc1, !.nbits = n1]

write_bytes(w, bts) == [w EXCEPT !.buffer = @ \o bts]

flush_always(w) ==
    [w EXCEPT !.buffer = Append(@, Shl(w.acc, 8 - w.nbits)), !.acc = 0, !.nbits = 0]

flush(w) ==
    IF w.nbits > 0
    THEN [w EXCEPT !.buffer = Append(@, Shl(w.acc, 8 - w.nbits)),
                   !.acc = 0, !.nbits = 0]
    ELSE w

get_bytes(w) == w.buffer

-----------------------------------------------------------------------------
(* BitReader (utils.py).  The BytesIO is the byte string and a position.   *)

NewBitReader(d) == [made |-> TRUE, buffer |-> d, pos |-> 0, cur |-> 0, nbits |-> 0]

NoBitReader == [made |-> FALSE, buffer |-> <<>>, pos |-> 0, cur |-> 0, nbits |-> 0]

\* BytesIO.read(n): the bytes read and the new position
buf_read(buffer, pos, n) ==
    LET end == Min(pos + n, Len(buffer))
    IN  [bytes |-> IF pos >= Len(buffer) THEN <<>> ELSE SubSeq(buffer, pos + 1, end),
         pos |-> IF pos >= Len(buffer) THEN pos ELSE end]

read_bit_zero_at_end(r) ==
    IF r.nbits = 0
    THEN LET rd == buf_read(r.buffer, r.pos, 1)
         IN  IF rd.bytes = <<>>
             THEN [bit |-> 0, br |-> [r EXCEPT !.pos = rd.pos]]
             ELSE [bit |-> Shr(rd.bytes[1], 7) % 2,
                   br |-> [r EXCEPT !.pos = rd.pos, !.cur = rd.bytes[1], !.nbits = 7]]
    ELSE [bit |-> Shr(r.cur, r.nbits - 1) % 2,
          br |-> [r EXCEPT !.nbits = r.nbits - 1]]

\* read_bit: the bit (EOS for None) and the reader afterwards
read_bit(r) ==
    IF r.nbits = 0
    THEN LET rd == buf_read(r.buffer, r.pos, 1)
         IN  IF rd.bytes = <<>>
             THEN [bit |-> EOS, br |-> [r EXCEPT !.pos = rd.pos]]
             ELSE [bit |-> Shr(rd.bytes[1], 7) % 2,
                   br |-> [r EXCEPT !.pos = rd.pos, !.cur = rd.bytes[1], !.nbits = 7]]
    ELSE [bit |-> Shr(r.cur, r.nbits - 1) % 2,
          br |-> [r EXCEPT !.nbits = r.nbits - 1]]

read_bytes(r, n) ==
    LET rd == buf_read(r.buffer, r.pos, n)
    IN  [bytes |-> rd.bytes, br |-> [r EXCEPT !.pos = rd.pos]]

-----------------------------------------------------------------------------
(* Python dict: a sequence of <<key, value>> pairs, keys unique, in        *)
(* insertion order.                                                        *)

Keys(d) == {d[i][1] : i \in DOMAIN d}

Values(d) == [i \in DOMAIN d |-> d[i][2]]

DictGet(d, k) == d[CHOOSE i \in DOMAIN d : d[i][1] = k][2]

\* d[k] = v: an existing key keeps its place, a new key goes last
DictSet(d, k, v) ==
    IF k \in Keys(d)
    THEN [i \in DOMAIN d |-> IF d[i][1] = k THEN <<k, v>> ELSE d[i]]
    ELSE Append(d, <<k, v>>)

RECURSIVE SumSeq(_)
SumSeq(s) == IF s = <<>> THEN 0 ELSE s[1] + SumSeq(Tail(s))

\* collections.Counter(data): one entry per distinct byte, in the order of
\* first occurrence, with the number of occurrences
FirstIndex(d, s) == CHOOSE i \in DOMAIN d : d[i] = s /\ \A j \in 1..(i - 1) : d[j] # s

Counter(d) ==
    LET syms == Range(d)
        first == [s \in syms |-> FirstIndex(d, s)]
        count == [s \in syms |-> Cardinality({i \in DOMAIN d : d[i] = s})]
        order == [k \in 1..Cardinality(syms) |->
                    CHOOSE s \in syms :
                        Cardinality({t \in syms : first[t] < first[s]}) = k - 1]
    IN  [k \in 1..Cardinality(syms) |-> <<order[k], count[order[k]]>>]

-----------------------------------------------------------------------------
(* Frequency table codec (utils.py).                                       *)

RECURSIVE pack_entries(_)
pack_entries(f) ==
    IF f = <<>> THEN <<>>
    ELSE <<f[1][1]>> \o pack_be(f[1][2], 8) \o pack_entries(Tail(f))

pack_metadata_count_u8(f) == pack_be(Len(f), 1) \o pack_entries(f)

pack_metadata(f) == pack_be(Len(f), 2) \o pack_entries(f)

RECURSIVE unpack_entries_lenient(_, _, _, _)
unpack_entries_lenient(buffer, pos, n, f) ==
    IF n = 0 THEN [err |-> "", freqs |-> f, pos |-> pos]
    ELSE LET sym_b == buf_read(buffer, pos, 1)
             f_raw == buf_read(buffer, sym_b.pos, 8)
         IN  IF sym_b.bytes = <<>>
             THEN [err |-> "ValueError: Invalid metadata: incomplete symbol data",
                   freqs |-> f, pos |-> sym_b.pos]
             ELSE IF f_raw.bytes = <<>>
             THEN [err |-> "ValueError: Invalid metadata: incomplete frequency data",
                   freqs |-> f, pos |-> f_raw.pos]
             ELSE IF Len(f_raw.bytes) < 8
             THEN [err |-> "struct.error: unpack requires a buffer of 8 bytes",
                   freqs |-> f, pos |-> f_raw.pos]
             ELSE unpack_entries_lenient(buffer, f_raw.pos, n - 1,
                                         DictSet(f, sym_b.bytes[1], unpack_be(f_raw.bytes)))

\* the loop `for _ in range(n)` of unpack_metadata, from position pos with
\* table f: the table and position reached, or the error raised
RECURSIVE unpack_entries(_, _, _, _)
unpack_entries(buffer, pos, n, f) ==
    IF n = 0 THEN [err |-> "", freqs |-> f, pos |-> pos]
    ELSE LET sym_b == buf_read(buffer, pos, 1)
             f_raw == buf_read(buffer, sym_b.pos, 8)
         IN  IF sym_b.bytes = <<>>
             THEN [err |-> "ValueError: Invalid metadata: incomplete symbol data",
                   freqs |-> f, pos |-> sym_b.pos]
             ELSE IF Len(f_raw.bytes) < 8
             THEN [err |-> "ValueError: Invalid metadata: incomplete frequency data",
                   freqs |-> f, pos |-> f_raw.pos]
             ELSE unpack_entries(buffer, f_raw.pos, n - 1,
                                 DictSet(f, sym_b.bytes[1], unpack_be(f_raw.bytes)))

\* unpack_metadata(bitreader): err is "" when it returns (freqs, pos), and then
\* br is the reader it leaves behind
unpack_metadata_keep_nbits(r) ==
    LET head == buf_read(r.buffer, 0, 2)
        res == unpack_entries(r.buffer, head.pos, unpack_be(head.bytes), <<>>)
    IN  IF Len(head.bytes) < 2
        THEN [err |-> "ValueError: Invalid metadata: header too short",
              freqs |-> <<>>, pos |-> head.pos, br |-> [r EXCEPT !.pos = head.pos]]
        ELSE [err |-> res.err, freqs |-> res.freqs, pos |-> res.pos,
              br |-> [r EXCEPT !.pos = res.pos]]

unpack_metadata(r) ==
    LET head == buf_read(r.buffer, 0, 2)
        res == unpack_entries(r.buffer, head.pos, unpack_be(head.bytes), <<>>)
    IN  IF Len(head.bytes) < 2
        THEN [err |-> "ValueError: Invalid metadata: header too short",
              freqs |-> <<>>, pos |-> head.pos, br |-> [r EXCEPT !.pos = head.pos]]
        ELSE IF res.err # ""
        THEN [err |-> res.err, freqs |-> res.freqs, pos |-> res.pos,
              br |-> [r EXCEPT !.pos = res.pos]]
        ELSE [err |-> "", freqs |-> res.freqs, pos |-> res.pos,
              br |-> [r EXCEPT !.pos = res.pos, !.nbits = 0]]

-----------------------------------------------------------------------------
(* Node (huffman.py) and heapq over references to Nodes.  ns is the arena, *)
(* heap positions are 0-based as in heapq: position p is h[p + 1].         *)

Node(freq, symbol, left, right) ==
    [freq |-> freq, symbol |-> symbol, left |-> left, right |-> right]

is_leaf_truthy(n) == n.symbol # NoSymbol /\ n.symbol # 0

is_leaf(n) == n.symbol # NoSymbol

lt_reversed(a, b) == a.freq > b.freq

\* Node.__lt__
lt(a, b) == a.freq < b.freq

RECURSIVE siftdown(_, _, _, _, _)
siftdown(h, ns, newitem, startpos, pos) ==
    IF pos > startpos
    THEN LET parentpos == (pos - 1) \div 2
             parent == h[parentpos + 1]
         IN  IF lt(ns[newitem], ns[parent])
             THEN siftdown([h EXCEPT ![pos + 1] = parent], ns, newitem, startpos, parentpos)
             ELSE [h EXCEPT ![pos + 1] = newitem]
    ELSE [h EXCEPT ![pos + 1] = newitem]

\* the while loop of heapq._siftup: the heap and the position of the hole
RECURSIVE siftup_loop(_, _, _, _)
siftup_loop(h, ns, pos, childpos) ==
    IF childpos < Len(h)
    THEN LET rightpos == childpos + 1
             c == IF rightpos < Len(h) /\ ~lt(ns[h[childpos + 1]], ns[h[rightpos + 1]])
                  THEN rightpos ELSE childpos
         IN  siftup_loop([h EXCEPT ![pos + 1] = h[c + 1]], ns, c, 2 * c + 1)
    ELSE [heap |-> h, pos |-> pos]

siftup(h, ns, pos) ==
    LET newitem == h[pos + 1]
        lp == siftup_loop(h, ns, pos, 2 * pos + 1)
    IN  siftdown(lp.heap, ns, newitem, pos, lp.pos)

heappush(h, ns, item) == siftdown(Append(h, item), ns, item, 0, Len(h))

\* heappop of a non-empty heap: the item returned and the heap left
heappop(h, ns) ==
    LET lastelt == h[Len(h)]
        rest == SubSeq(h, 1, Len(h) - 1)
    IN  IF rest # <<>>
        THEN [item |-> rest[1], heap |-> siftup([rest EXCEPT ![1] = lastelt], ns, 0)]
        ELSE [item |-> lastelt, heap |-> rest]

-----------------------------------------------------------------------------
(* HuffmanCoder.build_tree_from_freq: the arena and the root (None for an  *)
(* empty table).                                                           *)

\* for sym, f in freq_dict.items(): heappush(heap, Node(f, symbol=sym))
RECURSIVE push_leaves(_, _, _)
push_leaves(f, ns, h) ==
    IF f = <<>> THEN [nodes |-> ns, heap |-> h]
    ELSE LET ns1 == Append(ns, Node(f[1][2], f[1][1], None, None))
         IN  push_leaves(Tail(f), ns1, heappush(h, ns1, Len(ns1)))

RECURSIVE merge_loop_shared_child(_, _)
merge_loop_shared_child(ns, h) ==
    IF Len(h) > 1
    THEN LET p1 == heappop(h, ns)
             p2 == heappop(p1.heap, ns)
             ns1 == Append(ns, Node(ns[p1.item].freq + ns[p2.item].freq, NoSymbol,
                                    p1.item, p1.item))
         IN  merge_loop_shared_child(ns1, heappush(p2.heap, ns1, Len(ns1)))
    ELSE [nodes |-> ns, heap |-> h]

\* while len(heap) > 1: pop two, push their merge
RECURSIVE merge_loop(_, _)
merge_loop(ns, h) ==
    IF Len(h) > 1
    THEN LET p1 == heappop(h, ns)
             p2 == heappop(p1.heap, ns)
             ns1 == Append(ns, Node(ns[p1.item].freq + ns[p2.item].freq, NoSymbol,
                                    p1.item, p2.item))
         IN  merge_loop(ns1, heappush(p2.heap, ns1, Len(ns1)))
    ELSE [nodes |-> ns, heap |-> h]

build_tree_from_freq(f) ==
    LET pushed == push_leaves(f, <<>>, <<>>)
        merged == merge_loop(pushed.nodes, pushed.heap)
    IN  IF pushed.heap = <<>>
        THEN [nodes |-> pushed.nodes, root |-> None]
        ELSE [nodes |-> merged.nodes, root |-> heappop(merged.heap, merged.nodes).item]

-----------------------------------------------------------------------------
(* HuffmanCoder.tree_to_codes: the code table, or the AttributeError of a  *)
(* walk that steps onto None.                                              *)

RECURSIVE walk_same_bit(_, _, _, _)
walk_same_bit(ns, n, prefix, acc) ==
    IF acc.err # "" THEN acc
    ELSE IF n = None
    THEN [acc EXCEPT !.err = "AttributeError: 'NoneType' object has no attribute 'is_leaf'"]
    ELSE IF is_leaf(ns[n])
    THEN [acc EXCEPT !.codes = DictSet(@, ns[n].symbol,
                                        IF prefix = <<>> THEN <<"0">> ELSE prefix)]
    ELSE walk_same_bit(ns, ns[n].right, Append(prefix, "0"),
                       walk_same_bit(ns, ns[n].left, Append(prefix, "0"), acc))

tree_to_codes_same_bit(ns, r) ==
    IF r = None THEN [err |-> "", codes |-> <<>>]
    ELSE walk_same_bit(ns, r, <<>>, [err |-> "", codes |-> <<>>])

RECURSIVE walk(_, _, _, _)
walk(ns, n, prefix, acc) ==
    IF acc.err # "" THEN acc
    ELSE IF n = None
    THEN [acc EXCEPT !.err = "AttributeError: 'NoneType' object has no attribute 'is_leaf'"]
    ELSE IF is_leaf(ns[n])
    THEN [acc EXCEPT !.codes = DictSet(@, ns[n].symbol,
                                        IF prefix = <<>> THEN <<"0">> ELSE prefix)]
    ELSE walk(ns, ns[n].right, Append(prefix, "1"),
              walk(ns, ns[n].left, Append(prefix, "0"), acc))

tree_to_codes(ns, r) ==
    IF r = None THEN [err |-> "", codes |-> <<>>]
    ELSE walk(ns, r, <<>>, [err |-> "", codes |-> <<>>])

-----------------------------------------------------------------------------
(* Inputs.                                                                 *)

\* b'AAAAAAAAAA BBBB CC D' (test_compress_decompress_repeated_chars)
RepetitiveInput ==
    [i \in 1..10 |-> 65] \o <<32>> \o [i \in 1..4 |-> 66] \o <<32>>
        \o <<67, 67>> \o <<32>> \o <<68>>

\* b'A' * 1000 + b'B' * 100 + b'C' * 10 (test_compression_ratio)
RatioInput == [i \in 1..1000 |-> 65] \o [i \in 1..100 |-> 66] \o [i \in 1..10 |-> 67]

Inputs == SeqsUpTo(Alphabet, MaxLen) \cup {RepetitiveInput, RatioInput}

\* blobs handed to decompress_bytes directly: a count, that many entries
\* (symbols may repeat) and a payload, or any proper prefix of such a header
MetaTables == SeqsUpTo(BlobSymbols \X BlobCounts, Cardinality(BlobSymbols))

Blobs ==
    {pack_metadata(t) \o p : t \in MetaTables, p \in SeqsUpTo(PayloadBytes, MaxPayload)}
    \cup UNION {{Prefix(pack_metadata(t), k) : k \in 0..(2 + 9 * Len(t))} : t \in MetaTables}

\* frequency tables: dicts over TableSymbols, in every insertion order
Tables ==
    {t \in SeqsUpTo(TableSymbols \X TableCounts, Cardinality(TableSymbols)) :
        \A i, j \in DOMAIN t : i # j => t[i][1] # t[j][1]}

BitSeqs == SeqsUpTo({0, 1}, MaxBits)

-----------------------------------------------------------------------------
(* State after construction: nothing of a call exists yet.                 *)

Fresh ==
    /\ freqs = <<>> /\ freqs_made = FALSE
    /\ nodes = <<>> /\ root = None /\ codes = <<>>
    /\ bw = NoBitWriter /\ br = NoBitReader
    /\ idx = 0 /\ node = None /\ out = <<>> /\ expected_size = 0
    /\ err = "" /\ read_bits = <<>> /\ unpacked = <<>> /\ bytes_read = 0

InitRoundTrip ==
    /\ scenario = "roundtrip" /\ pc = "call_compress"
    /\ data \in Inputs /\ compressed = <<>> /\ bits = <<>>
    /\ Fresh

InitDecode ==
    /\ scenario = "decode" /\ pc = "call_decompress"
    /\ data = <<>> /\ compressed \in Blobs /\ bits = <<>>
    /\ Fresh

InitBits ==
    /\ scenario = "bitio" /\ pc = "bit_write"
    /\ data = <<>> /\ compressed = <<>> /\ bits \in BitSeqs
    /\ freqs = <<>> /\ freqs_made = FALSE
    /\ nodes = <<>> /\ root = None /\ codes = <<>>
    /\ bw = NewBitWriter /\ br = NoBitReader
    /\ idx = 0 /\ node = None /\ out = <<>> /\ expected_size = 0
    /\ err = "" /\ read_bits = <<>> /\ unpacked = <<>> /\ bytes_read = 0

InitTable ==
    /\ scenario = "table" /\ pc = "table"
    /\ data = <<>> /\ compressed = <<>> /\ bits = <<>>
    /\ freqs \in Tables /\ freqs_made = TRUE
    /\ nodes = <<>> /\ root = None /\ codes = <<>>
    /\ bw = NoBitWriter /\ br = NoBitReader
    /\ idx = 0 /\ node = None /\ out = <<>> /\ expected_size = 0
    /\ err = "" /\ read_bits = <<>> /\ unpacked = <<>> /\ bytes_read = 0

Init == InitRoundTrip \/ InitDecode

-----------------------------------------------------------------------------
(* HuffmanCoder.compress_bytes.                                            *)

is_empty_never(d) == FALSE

\* `not data` of lines 166 and 211
is_empty(d) == d = <<>>

\* for ch in code: bw.write_bit(1 if ch == '1' else 0)
RECURSIVE write_code(_, _)
write_code(w, code) ==
    IF code = <<>> THEN w
    ELSE write_code(write_bit(w, IF code[1] = "1" THEN 1 ELSE 0), Tail(code))

\* lines 166-188: everything up to the encoding loop
CompressCall ==
    /\ pc = "call_compress"
    /\ IF is_empty(data)
       THEN /\ err' = "ValueError: Cannot compress empty data"
            /\ pc' = "raised"
            /\ UNCHANGED <<freqs, freqs_made, nodes, root, codes, bw, compressed>>
       ELSE LET f == Counter(data)
                tree == build_tree_from_freq(f)
                cd == tree_to_codes(tree.nodes, tree.root)
                single == flush(write_bytes(NewBitWriter, pack_metadata(f)))
            IN  /\ freqs' = f /\ freqs_made' = TRUE
                /\ IF Len(f) = 1
                   THEN /\ bw' = single
                        /\ compressed' = get_bytes(single)
                        /\ pc' = "compress_returned"
                        /\ UNCHANGED <<nodes, root, codes, err>>
                   ELSE /\ nodes' = tree.nodes /\ root' = tree.root
                        /\ IF cd.err # ""
                           THEN /\ err' = cd.err /\ pc' = "raised"
                                /\ UNCHANGED <<codes, bw, compressed>>
                           ELSE /\ codes' = cd.codes
                                /\ bw' = write_bytes(NewBitWriter, pack_metadata(f))
                                /\ pc' = "encode"
                                /\ UNCHANGED <<err, compressed>>
    /\ idx' = 0
    /\ UNCHANGED <<data, br, node, out, expected_size, bits, read_bits, unpacked,
                   bytes_read, scenario>>

\* lines 191-194: one iteration of `for b in data`
EncodeByte ==
    /\ pc = "encode"
    /\ idx < Len(data)
    /\ bw' = write_code(bw, DictGet(codes, data[idx + 1]))
    /\ idx' = idx + 1
    /\ UNCHANGED <<pc, data, compressed, freqs, freqs_made, nodes, root, codes, br,
                   node, out, expected_size, err, bits, read_bits, unpacked,
                   bytes_read, scenario>>

\* lines 195-196: flush and return
CompressReturn ==
    /\ pc = "encode"
    /\ idx = Len(data)
    /\ bw' = flush(bw)
    /\ compressed' = get_bytes(flush(bw))
    /\ pc' = "compress_returned"
    /\ UNCHANGED <<data, freqs, freqs_made, nodes, root, codes, br, idx, node, out,
                   expected_size, err, bits, read_bits, unpacked, bytes_read, scenario>>

-----------------------------------------------------------------------------
(* HuffmanCoder.decompress_bytes.                                          *)

sum_frequencies_unbounded(f) == 1073741824

\* expected_size = sum(freqs.values())
sum_frequencies(f) == SumSeq(Values(f))

\* bytes([symbol] * count)
Repeat(symbol, count) == [i \in 1..count |-> symbol]

\* lines 211-233: everything up to the decoding loop; the argument is the
\* blob compress_bytes returned or the blob the caller supplied
DecompressCall ==
    /\ pc \in {"call_decompress", "compress_returned"}
    /\ IF is_empty(compressed)
       THEN /\ err' = "ValueError: Cannot decompress empty data"
            /\ pc' = "raised"
            /\ UNCHANGED <<br, freqs, freqs_made, nodes, root, node, out, expected_size>>
       ELSE LET u == unpack_metadata(NewBitReader(compressed))
                tree == build_tree_from_freq(u.freqs)
            IN  /\ br' = u.br
                /\ IF u.err # ""
                   THEN /\ err' = u.err /\ pc' = "raised"
                        /\ freqs' = <<>> /\ freqs_made' = FALSE
                        /\ nodes' = <<>> /\ root' = None
                        /\ UNCHANGED <<node, out, expected_size>>
                   ELSE IF u.freqs = <<>>
                   THEN /\ err' = "ValueError: Invalid compressed data: no frequency table found"
                        /\ pc' = "raised"
                        /\ freqs' = u.freqs /\ freqs_made' = TRUE
                        /\ nodes' = <<>> /\ root' = None
                        /\ UNCHANGED <<node, out, expected_size>>
                   ELSE IF Len(u.freqs) = 1
                   THEN /\ out' = Repeat(u.freqs[1][1], u.freqs[1][2])
                        /\ pc' = "decompress_returned"
                        /\ freqs' = u.freqs /\ freqs_made' = TRUE
                        /\ nodes' = <<>> /\ root' = None
                        /\ UNCHANGED <<node, expected_size, err>>
                   ELSE /\ freqs' = u.freqs /\ freqs_made' = TRUE
                        /\ nodes' = tree.nodes /\ root' = tree.root
                        /\ out' = <<>>
                        /\ UNCHANGED err
                        /\ IF tree.root = None
                           THEN /\ pc' = "decompress_returned"
                                /\ UNCHANGED <<node, expected_size>>
                           ELSE /\ expected_size' = sum_frequencies(u.freqs)
                                /\ node' = tree.root
                                /\ pc' = "walk"
    /\ UNCHANGED <<data, compressed, codes, bw, idx, bits, read_bits, unpacked,
                   bytes_read, scenario>>

\* lines 234-241: one iteration of the while loop, the break included
DecodeBit ==
    /\ pc = "walk"
    /\ Len(out) < expected_size
    /\ LET r == read_bit(br)
           n1 == IF node = None THEN None
                 ELSE IF r.bit = 1 THEN nodes[node].right ELSE nodes[node].left
       IN  /\ br' = r.br
           /\ IF r.bit = EOS
              THEN /\ pc' = "decompress_returned"
                   /\ UNCHANGED <<node, out, err>>
              ELSE IF n1 = None
              THEN /\ err' = "AttributeError: 'NoneType' object has no attribute"
                   /\ pc' = "raised"
                   /\ node' = n1
                   /\ UNCHANGED out
              ELSE IF is_leaf(nodes[n1])
              THEN /\ out' = Append(out, nodes[n1].symbol)
                   /\ node' = root
                   /\ UNCHANGED <<pc, err>>
              ELSE /\ node' = n1
                   /\ UNCHANGED <<pc, out, err>>
    /\ UNCHANGED <<data, compressed, freqs, freqs_made, nodes, root, codes, bw, idx,
                   expected_size, bits, read_bits, unpacked, bytes_read, scenario>>

\* line 234 false, line 242: the loop ends on the expected size
DecompressReturn ==
    /\ pc = "walk"
    /\ Len(out) >= expected_size
    /\ pc' = "decompress_returned"
    /\ UNCHANGED <<data, compressed, freqs, freqs_made, nodes, root, codes, bw, br,
                   idx, node, out, expected_size, err, bits, read_bits, unpacked,
                   bytes_read, scenario>>

Next ==
    \/ CompressCall
    \/ EncodeByte
    \/ CompressReturn
    \/ DecompressCall
    \/ DecodeBit
    \/ DecompressReturn

Spec == Init /\ [][Next]_vars

-----------------------------------------------------------------------------
(* A caller that alters the blob between compress_bytes and                *)
(* decompress_bytes: it drops trailing bytes of the payload region, or     *)
(* appends bytes after it.  bw still holds the blob as it was returned.    *)

TamperInputs == (SeqsUpTo(TamperAlphabet, MaxLen) \ {<<>>}) \cup {RepetitiveInput}

InitTamper ==
    /\ scenario = "roundtrip" /\ pc = "call_compress"
    /\ data \in TamperInputs /\ compressed = <<>> /\ bits = <<>>
    /\ Fresh

\* length of the metadata region of the blob just returned
MetadataLen == 2 + 9 * Len(freqs)

Truncate ==
    /\ pc = "compress_returned" /\ scenario = "roundtrip"
    /\ Len(freqs) >= 2
    /\ \E k \in 0..(Len(compressed) - MetadataLen) :
          compressed' = Prefix(compressed, Len(compressed) - k)
    /\ scenario' = "truncated"
    /\ UNCHANGED <<pc, data, freqs, freqs_made, nodes, root, codes, bw, br, idx, node,
                   out, expected_size, err, bits, read_bits, unpacked, bytes_read>>

AppendTrailing ==
    /\ pc = "compress_returned" /\ scenario = "roundtrip"
    /\ \E x \in SeqsUpTo(TrailingBytes, MaxTrailing) : compressed' = compressed \o x
    /\ scenario' = "extended"
    /\ UNCHANGED <<pc, data, freqs, freqs_made, nodes, root, codes, bw, br, idx, node,
                   out, expected_size, err, bits, read_bits, unpacked, bytes_read>>

NextTamper ==
    \/ CompressCall
    \/ EncodeByte
    \/ CompressReturn
    \/ Truncate
    \/ AppendTrailing
    \/ DecompressCall
    \/ DecodeBit
    \/ DecompressReturn

SpecTamper == InitTamper /\ [][NextTamper]_vars

-----------------------------------------------------------------------------
(* Bit I/O on its own (test_write_read_multiple_bits): write the bits,     *)
(* flush, read the bytes back bit by bit until read_bit returns None.      *)

WriteBit ==
    /\ pc = "bit_write"
    /\ idx < Len(bits)
    /\ bw' = write_bit(bw, bits[idx + 1])
    /\ idx' = idx + 1
    /\ UNCHANGED <<pc, data, compressed, freqs, freqs_made, nodes, root, codes, br,
                   node, out, expected_size, err, bits, read_bits, unpacked,
                   bytes_read, scenario>>

Flush ==
    /\ pc = "bit_write"
    /\ idx = Len(bits)
    /\ bw' = flush(bw)
    /\ pc' = "bit_flushed"
    /\ UNCHANGED <<data, compressed, freqs, freqs_made, nodes, root, codes, br, idx,
                   node, out, expected_size, err, bits, read_bits, unpacked,
                   bytes_read, scenario>>

\* data = writer.get_bytes(); reader = BitReader(data)
OpenReader ==
    /\ pc = "bit_flushed"
    /\ compressed' = get_bytes(bw)
    /\ br' = NewBitReader(get_bytes(bw))
    /\ pc' = "bit_read"
    /\ UNCHANGED <<data, freqs, freqs_made, nodes, root, codes, bw, idx, node, out,
                   expected_size, err, bits, read_bits, unpacked, bytes_read, scenario>>

ReadBit ==
    /\ pc = "bit_read"
    /\ LET r == read_bit(br)
       IN  /\ br' = r.br
           /\ read_bits' = Append(read_bits, r.bit)
           /\ pc' = IF r.bit = EOS THEN "bit_eos" ELSE "bit_read"
    /\ UNCHANGED <<data, compressed, freqs, freqs_made, nodes, root, codes, bw, idx,
                   node, out, expected_size, err, bits, unpacked, bytes_read, scenario>>

NextBits == WriteBit \/ Flush \/ OpenReader \/ ReadBit

SpecBits == InitBits /\ [][NextBits]_vars

-----------------------------------------------------------------------------
(* The frequency table on its own (TestMetadata, test_build_tree,          *)
(* test_tree_to_codes): pack and unpack it, or build its tree and codes.   *)

\* packed = pack_metadata(freqs); reader = BitReader(packed)
PackMetadata ==
    /\ pc = "table"
    /\ compressed' = pack_metadata(freqs)
    /\ br' = NewBitReader(pack_metadata(freqs))
    /\ pc' = "packed"
    /\ UNCHANGED <<data, freqs, freqs_made, nodes, root, codes, bw, idx, node, out,
                   expected_size, err, bits, read_bits, unpacked, bytes_read, scenario>>

\* the reader may have served bits before it is handed to unpack_metadata
PreRead ==
    /\ pc = "packed"
    /\ 8 * br.pos - br.nbits < MaxPreReads
    /\ br' = read_bit(br).br
    /\ UNCHANGED <<pc, data, compressed, freqs, freqs_made, nodes, root, codes, bw,
                   idx, node, out, expected_size, err, bits, read_bits, unpacked,
                   bytes_read, scenario>>

UnpackMetadata ==
    /\ pc = "packed"
    /\ LET u == unpack_metadata(br)
       IN  /\ br' = u.br
           /\ err' = u.err
           /\ IF u.err = ""
              THEN unpacked' = u.freqs /\ bytes_read' = u.pos /\ pc' = "unpacked"
              ELSE UNCHANGED <<unpacked, bytes_read>> /\ pc' = "raised"
    /\ UNCHANGED <<data, compressed, freqs, freqs_made, nodes, root, codes, bw, idx,
                   node, out, expected_size, bits, read_bits, scenario>>

BuildTree ==
    /\ pc = "table"
    /\ LET tree == build_tree_from_freq(freqs)
       IN  nodes' = tree.nodes /\ root' = tree.root
    /\ pc' = "tree_built"
    /\ UNCHANGED <<data, compressed, freqs, freqs_made, codes, bw, br, idx, node, out,
                   expected_size, err, bits, read_bits, unpacked, bytes_read, scenario>>

TreeToCodes ==
    /\ pc = "tree_built"
    /\ LET cd == tree_to_codes(nodes, root)
       IN  /\ err' = cd.err
           /\ IF cd.err = ""
              THEN codes' = cd.codes /\ pc' = "codes_made"
              ELSE UNCHANGED codes /\ pc' = "raised"
    /\ UNCHANGED <<data, compressed, freqs, freqs_made, nodes, root, bw, br, idx, node,
                   out, expected_size, bits, read_bits, unpacked, bytes_read, scenario>>

NextTable == PackMetadata \/ PreRead \/ UnpackMetadata \/ BuildTree \/ TreeToCodes

SpecTable == InitTable /\ [][NextTable]_vars

-----------------------------------------------------------------------------
(* Properties.                                                             *)

IsPrefix(a, b) == Len(a) <= Len(b) /\ SubSeq(b, 1, Len(a)) = a

Symbols(d) == Range(d)

Occurrences(d, s) == Cardinality({i \in DOMAIN d : d[i] = s})

\* the count N in the first two bytes of a blob of at least two bytes
HeaderCount(b) == 256 * b[1] + b[2]

\* the value of the big-endian 8-byte field that starts at b[at], below 2^32
FieldValue(b, at) ==
    16777216 * b[at + 4] + 65536 * b[at + 5] + 256 * b[at + 6] + b[at + 7]

FieldHighZero(b, at) == \A i \in 0..3 : b[at + i] = 0

\* C1: Round-trip: compressing a non-empty input and decompressing the blob
\* never raises and returns exactly the input.
C1_RoundTrip ==
    (scenario = "roundtrip" /\ data # <<>>) =>
        /\ pc # "raised"
        /\ err = ""
        /\ pc = "decompress_returned" => out = data

\* a round trip of an input with three or more symbols, symbol 0 among them,
\* two of them equally frequent
C1_Witness ==
    /\ scenario = "roundtrip" /\ pc = "decompress_returned"
    /\ out = data
    /\ Cardinality(Symbols(data)) >= 3
    /\ 0 \in Symbols(data)
    /\ \E s, t \in Symbols(data) : s # t /\ Occurrences(data, s) = Occurrences(data, t)

\* C2: Single-symbol path: n >= 1 copies of one byte s compress to the 11
\* bytes <<0, 1, s>> and n as 8 big-endian bytes, with no payload, and that
\* blob decompresses to the input with no tree built and no bit read.
C2_SingleSymbol ==
    (scenario = "roundtrip" /\ data # <<>> /\ Cardinality(Symbols(data)) = 1) =>
        /\ pc \in {"call_compress", "compress_returned", "decompress_returned"}
        /\ pc \in {"compress_returned", "decompress_returned"} =>
              /\ Len(compressed) = 11
              /\ compressed[1] = 0 /\ compressed[2] = 1
              /\ compressed[3] = data[1]
              /\ FieldHighZero(compressed, 4)
              /\ FieldValue(compressed, 4) = Len(data)
              /\ nodes = <<>> /\ root = None /\ codes = <<>>
        /\ pc = "decompress_returned" =>
              /\ out = data
              /\ br.made /\ br.pos = 11 /\ br.nbits = 0 /\ br.cur = 0

C2_Witness ==
    /\ scenario = "roundtrip" /\ pc = "decompress_returned"
    /\ Cardinality(Symbols(data)) = 1
    /\ Len(data) >= 3
    /\ Len(compressed) = 11
    /\ out = data

\* C3: Prefix-code property: the codes derived from the tree of a table with
\* at least 2 symbols cover every symbol of the table, none is empty and none
\* is a prefix of (or equal to) the code of another symbol.
C3_PrefixCode ==
    (scenario = "table" /\ Len(freqs) >= 2) =>
        /\ pc \in {"tree_built", "codes_made"} => err = ""
        /\ pc = "codes_made" =>
              /\ Keys(codes) = Keys(freqs)
              /\ Len(codes) = Len(freqs)
              /\ \A i \in DOMAIN codes :
                    /\ codes[i][2] # <<>>
                    /\ Range(codes[i][2]) \subseteq {"0", "1"}
              /\ \A i, j \in DOMAIN codes :
                    i # j => ~IsPrefix(codes[i][2], codes[j][2])

\* codes of a four-symbol table in which a count is zero and two counts tie
C3_Witness ==
    /\ scenario = "table" /\ pc = "codes_made"
    /\ Len(freqs) = 4
    /\ \E i, j \in DOMAIN freqs : i # j /\ freqs[i][2] = 0 /\ freqs[j][2] = 0
    /\ \E i \in DOMAIN codes : Len(codes[i][2]) = 3

\* what read_bit call number i must return for the written bits b
ExpectedRead(b, i) ==
    IF i <= Len(b) THEN b[i]
    ELSE IF i <= 8 * CeilDiv8(Len(b)) THEN 0
    ELSE EOS

\* C4: Bit-order symmetry: n bits written and flushed give ceil(n/8) bytes,
\* and reading them back gives the n bits in order, then zero padding up to
\* the byte boundary, then end-of-stream.
C4_BitOrder ==
    scenario = "bitio" =>
        /\ pc \in {"bit_flushed", "bit_read", "bit_eos"} =>
              /\ Len(get_bytes(bw)) = CeilDiv8(Len(bits))
              /\ bw.nbits = 0
        /\ \A i \in DOMAIN read_bits : read_bits[i] = ExpectedRead(bits, i)
        /\ pc = "bit_eos" => Len(read_bits) = 8 * CeilDiv8(Len(bits)) + 1

\* more than one byte of bits, ones among them, read back to the end
C4_Witness ==
    /\ scenario = "bitio" /\ pc = "bit_eos"
    /\ Len(bits) > 8
    /\ Len(bits) % 8 # 0
    /\ bits[1] = 1 /\ bits[2] = 0 /\ bits[Len(bits)] = 1

\* C5: Metadata round-trip: pack_metadata(f) has 2 + 9*|f| bytes, and
\* unpack_metadata over a reader of them returns f and 2 + 9*|f|, leaving
\* the reader at that offset with no pending bits.
C5_MetadataRoundTrip ==
    scenario = "table" =>
        /\ pc \in {"packed", "unpacked"} => Len(compressed) = 2 + 9 * Len(freqs)
        /\ pc \in {"packed", "unpacked"} => err = ""
        /\ pc = "unpacked" =>
              /\ unpacked = freqs
              /\ bytes_read = 2 + 9 * Len(freqs)
              /\ br.pos = 2 + 9 * Len(freqs)
              /\ br.nbits = 0

\* a table of several entries with a multi-byte count, unpacked
C5_Witness ==
    /\ scenario = "table" /\ pc = "unpacked"
    /\ Len(freqs) >= 3
    /\ \E i \in DOMAIN freqs : freqs[i][2] > 65535
    /\ \E i \in DOMAIN freqs : freqs[i][2] = 0
    /\ unpacked = freqs

NothingCreated ==
    /\ ~freqs_made /\ freqs = <<>>
    /\ nodes = <<>> /\ root = None
    /\ ~bw.made /\ ~br.made
    /\ out = <<>>

\* C6: Empty input is rejected: compress_bytes(b'') and decompress_bytes(b'')
\* raise the empty-input ValueError before any table, tree, writer or reader
\* exists, and return nothing.
C6_EmptyRejected ==
    /\ (scenario = "roundtrip" /\ data = <<>>) =>
          /\ pc \in {"call_compress", "raised"}
          /\ pc = "raised" => err = "ValueError: Cannot compress empty data"
          /\ compressed = <<>>
          /\ NothingCreated
    /\ (scenario = "decode" /\ compressed = <<>>) =>
          /\ pc \in {"call_decompress", "raised"}
          /\ pc = "raised" => err = "ValueError: Cannot decompress empty data"
          /\ NothingCreated

C6_Witness ==
    /\ pc = "raised" /\ data = <<>> /\ compressed = <<>>
    /\ err \in {"ValueError: Cannot compress empty data",
                "ValueError: Cannot decompress empty data"}

Malformed(b) ==
    \/ Len(b) < 2
    \/ Len(b) >= 2 /\ (HeaderCount(b) = 0 \/ Len(b) < 2 + 9 * HeaderCount(b))

MalformedError(b) ==
    IF Len(b) < 2 THEN "ValueError: Invalid metadata: header too short"
    ELSE IF HeaderCount(b) = 0
    THEN "ValueError: Invalid compressed data: no frequency table found"
    ELSE IF (Len(b) - 2) % 9 = 0
    THEN "ValueError: Invalid metadata: incomplete symbol data"
    ELSE "ValueError: Invalid metadata: incomplete frequency data"

\* C7: Malformed metadata is rejected: a non-empty blob shorter than 2 bytes,
\* or shorter than 2 + 9*N for its header count N, or with N = 0 makes
\* decompress_bytes raise a ValueError and return nothing; no table, tree or
\* output comes out of a partially read entry.
C7_MalformedRejected ==
    (scenario = "decode" /\ compressed # <<>> /\ Malformed(compressed)) =>
        /\ pc \in {"call_decompress", "raised"}
        /\ pc = "raised" => err = MalformedError(compressed)
        /\ out = <<>> /\ freqs = <<>> /\ nodes = <<>> /\ root = None

\* a blob cut inside the frequency of its second entry
C7_Witness ==
    /\ scenario = "decode" /\ pc = "raised"
    /\ Len(compressed) > 12
    /\ (Len(compressed) - 2) % 9 > 1
    /\ err = "ValueError: Invalid metadata: incomplete frequency data"

\* the symbols of the N metadata entries of a blob whose metadata is complete
MetadataSymbols(b) == {b[3 + 9 * k] : k \in 0..(HeaderCount(b) - 1)}

\* metadata fully readable, with at least 2 distinct symbols
Decodable(b) ==
    /\ Len(b) >= 2
    /\ Len(b) >= 2 + 9 * HeaderCount(b)
    /\ Cardinality(MetadataSymbols(b)) >= 2

\* bits the reader can still serve
Remaining == 8 * (Len(br.buffer) - br.pos) + br.nbits

C8_Safe ==
    (scenario = "decode" /\ Decodable(compressed)) =>
        /\ pc # "raised" /\ err = ""
        /\ pc = "walk" => node \in DOMAIN nodes /\ Remaining >= 0 /\ ENABLED Next
        /\ pc \in {"walk", "decompress_returned"} =>
              /\ root \in DOMAIN nodes
              /\ Len(out) <= SumSeq(Values(freqs))
              /\ Range(out) \subseteq MetadataSymbols(compressed)

\* a step of the decoding loop ends the loop or uses up a bit of the stream
C8_Progress ==
    (scenario = "decode" /\ pc = "walk") => (pc' # "walk" \/ Remaining' < Remaining)

\* C8: Lenient decoding never crashes or loops: on a blob with readable
\* metadata and at least 2 distinct symbols decompress_bytes never raises,
\* every step of the walk is on a node of the tree, the output has at most
\* sum(frequencies) bytes, all of them symbols of the table, and the loop
\* always can take a step, each of which ends it or consumes one of the
\* finitely many bits of the stream.
C8_LenientDecoding == []C8_Safe /\ [][C8_Progress]_vars

\* the stream ran out in the middle of the expected output
C8_Witness ==
    /\ scenario = "decode" /\ Decodable(compressed)
    /\ pc = "decompress_returned"
    /\ out # <<>>
    /\ Len(out) < expected_size
    /\ \E i \in DOMAIN freqs : freqs[i][2] = 0

\* C9: Compression is effective for highly repetitive data: the blob of
\* b'AAAAAAAAAA BBBB CC D', metadata included, is strictly shorter than the
\* input.
C9_RepetitiveShorter ==
    (scenario = "roundtrip" /\ data = RepetitiveInput /\ pc = "compress_returned") =>
        Len(compressed) < Len(data)

\* B: the sum over the input bytes of their code lengths
PayloadBits(d, cd) ==
    SumSeq([k \in DOMAIN cd |-> Occurrences(d, cd[k][1]) * Len(cd[k][2])])

\* C10: Compressed size: with N >= 2 distinct symbols the blob has exactly
\* 2 + 9*N + ceil(B/8) bytes; for 1000 'A', 100 'B' and 10 'C' that is less
\* than half the input's size.
C10_CompressedSize ==
    (scenario = "roundtrip" /\ pc = "compress_returned"
        /\ Cardinality(Symbols(data)) >= 2) =>
        /\ Keys(codes) = Symbols(data)
        /\ Len(compressed) =
              2 + 9 * Cardinality(Symbols(data)) + CeilDiv8(PayloadBits(data, codes))
        /\ data = RatioInput => 2 * Len(compressed) < Len(data)

C10_Witness ==
    /\ scenario = "roundtrip" /\ pc = "compress_returned"
    /\ data = RatioInput
    /\ Len(compressed) = 182

Leaves == {i \in DOMAIN nodes : nodes[i].symbol # NoSymbol}

Internals == {i \in DOMAIN nodes : nodes[i].symbol = NoSymbol}

\* the (parent, side) pairs that refer to node n
ParentLinks(n) ==
    {<<i, "left">> : i \in {j \in DOMAIN nodes : nodes[j].left = n}}
    \cup {<<i, "right">> : i \in {j \in DOMAIN nodes : nodes[j].right = n}}

\* C11: Tree invariants: the tree of a non-empty table has exactly one leaf
\* per symbol, weighted with the symbol's frequency; every internal node has
\* two children and the sum of their weights as weight, so the root weighs
\* the sum of all frequencies; no node is the child of two parents.  An
\* empty table gives no tree (None).
C11_TreeInvariants ==
    (scenario = "table" /\ pc \in {"tree_built", "codes_made"}) =>
        /\ freqs = <<>> => root = None /\ nodes = <<>>
        /\ freqs # <<>> =>
              /\ root \in DOMAIN nodes
              /\ Cardinality(Leaves) = Len(freqs)
              /\ \A k \in DOMAIN freqs :
                    \E i \in Leaves :
                        /\ nodes[i].symbol = freqs[k][1]
                        /\ nodes[i].freq = freqs[k][2]
              /\ \A i \in Leaves : nodes[i].left = None /\ nodes[i].right = None
              /\ \A i \in Internals :
                    /\ nodes[i].left \in 1..(i - 1)
                    /\ nodes[i].right \in 1..(i - 1)
                    /\ nodes[i].freq = nodes[nodes[i].left].freq + nodes[nodes[i].right].freq
              /\ nodes[root].freq = SumSeq(Values(freqs))
              /\ ParentLinks(root) = {}
              /\ \A n \in DOMAIN nodes : n # root => Cardinality(ParentLinks(n)) = 1

\* the tree of a four-symbol table: 4 leaves, 3 internal nodes
C11_Witness ==
    /\ scenario = "table" /\ pc = "tree_built"
    /\ Len(freqs) = 4
    /\ Cardinality(Internals) = 3
    /\ nodes[root].freq > 16909060

\* sum(freq[s] * len(code[s]))
WeightedLength(f, cd) ==
    SumSeq([k \in DOMAIN f |-> f[k][2] * Len(DictGet(cd, f[k][1]))])

\* 2^n
Pow2(n) == Shl(1, n)

\* the code-length assignments of the prefix codes over the symbols of f:
\* lengths of at least 1 that satisfy Kraft's inequality (lengths beyond the
\* number of symbols are not needed for the minimum)
PrefixCodeLengths(f) ==
    {l \in [DOMAIN f -> 1..Len(f)] :
        SumSeq([k \in DOMAIN f |-> Pow2(Len(f) - l[k])]) <= Pow2(Len(f))}

Cost(f, l) == SumSeq([k \in DOMAIN f |-> f[k][2] * l[k]])

\* C12: Optimality: for a table with at least 2 symbols the total weighted
\* code length of the derived codes is the minimum over all prefix codes for
\* those symbols, whatever the insertion order and the ties.
C12_Optimal ==
    (scenario = "table" /\ pc = "codes_made" /\ Len(freqs) >= 2) =>
        /\ \A l \in PrefixCodeLengths(freqs) :
              WeightedLength(freqs, codes) <= Cost(freqs, l)
        /\ \E l \in PrefixCodeLengths(freqs) :
              \A k \in DOMAIN freqs : l[k] = Len(DictGet(codes, freqs[k][1]))

\* a skewed four-symbol table: the optimal code has lengths 1, 2, 3, 3
C12_Witness ==
    /\ scenario = "table" /\ pc = "codes_made"
    /\ Len(freqs) = 4
    /\ \A k \in DOMAIN freqs : freqs[k][2] > 0
    /\ \E i, j \in DOMAIN codes : Len(codes[i][2]) = 1 /\ Len(codes[j][2]) = 3

\* bits of the codes of the first k bytes of d
CodeBits(d, cd, k) == PayloadBits(SubSeq(d, 1, k), cd)

\* payload bits left in the (altered) blob
KeptBits == 8 * (Len(compressed) - MetadataLen)

\* C13: Truncated payload decodes to a prefix: with trailing payload bytes
\* removed (metadata intact) decompress_bytes does not raise and returns a
\* prefix of the input: exactly the bytes whose codes fit whole in the bits
\* left, so a code cut off by the end of the stream emits nothing.
C13_TruncatedPrefix ==
    scenario = "truncated" =>
        /\ pc # "raised" /\ err = ""
        /\ pc \in {"walk", "decompress_returned"} =>
              /\ IsPrefix(out, data)
              /\ CodeBits(data, codes, Len(out)) <= KeptBits
        /\ pc = "decompress_returned" =>
              \/ out = data
              \/ CodeBits(data, codes, Len(out) + 1) > KeptBits

\* a blob cut inside a code: a proper, non-empty prefix comes back and bits
\* of the cut code are left over
C13_Witness ==
    /\ scenario = "truncated" /\ pc = "decompress_returned"
    /\ out # <<>> /\ out # data
    /\ CodeBits(data, codes, Len(out)) < KeptBits

\* C14: Padding and trailing bytes are never decoded: whatever bytes follow
\* the blob of a non-empty input, decompress_bytes returns exactly the input;
\* it stops at sum(frequencies) symbols and reads none of the added bytes.
C14_TrailingIgnored ==
    scenario = "extended" =>
        /\ pc # "raised" /\ err = ""
        /\ pc \in {"walk", "decompress_returned"} =>
              /\ IsPrefix(out, data)
              /\ br.pos <= Len(get_bytes(bw))
        /\ pc = "decompress_returned" => out = data

\* bytes were appended to a blob whose last payload byte is padded
C14_Witness ==
    /\ scenario = "extended" /\ pc = "decompress_returned"
    /\ Len(compressed) > Len(get_bytes(bw))
    /\ compressed[Len(compressed)] = 255
    /\ Cardinality(Symbols(data)) >= 3
    /\ PayloadBits(data, codes) % 8 # 0
    /\ out = data

====
